---- MODULE Spec2Model ----
(***************************************************************************)
(* Model of the client-side data-access layer of the OpenHands frontend:   *)
(*   - api/github.ts: retrieveGitHubAppRepositories and                    *)
(*     retrieveGitHubUserRepositories (repository pagination);             *)
(*   - hooks/query/use-settings.ts: getSettingsQueryFn and useSettings;    *)
(*   - types/settings.ts: the Settings and ApiSettings shapes.             *)
(* JavaScript values are modelled as follows: `null` is NULL, a string or  *)
(* a map that may be undefined is a record with a `present` flag, and a    *)
(* 0-based array index i addresses element i + 1 of a TLA+ sequence.       *)
(***************************************************************************)
EXTENDS Integers, Sequences, FiniteSets, TLC

\* ------------------------------------------------------------------ bounds
MaxPage == 3
MaxRepos == 2
MaxInstallations == 3
MaxFailureCount == 2
MaxCaptures == 2

\* ------------------------------------------------------- JavaScript values
\* `null` of a `number | null`
NULL == -1

\* truthiness of a `number | null`: null and 0 are falsy
TruthyNumber(n) == n # NULL /\ n # 0

\* ------------------------------------------------------------ link headers
\* A Link header is a list of entries <url with page=p>; rel="r".  The forms
\* a paginated listing sends: "", prev only, next only, prev and next.
Pages == 0..MaxPage

LinkEntry(rel, p) == [rel |-> rel, page |-> p]

LinkStrings ==
    {<<>>}
    \cup {<<LinkEntry(r, p)>> : r \in {"prev", "next"}, p \in Pages}
    \cup {<<LinkEntry("prev", p), LinkEntry("next", n)>> : p \in Pages, n \in Pages}

\* an optional string field: undefined, or a string
Undefined == [present |-> FALSE, value |-> <<>>]
Str(s) == [present |-> TRUE, value |-> s]
OptionalLinks == {Undefined} \cup {Str(s) : s \in LinkStrings}

\* truthiness of an optional string: undefined and "" are falsy
TruthyString(s) == s.present /\ Len(s.value) > 0

\* the page of the first rel="next" entry of a link string, or null
RECURSIVE extractNextPageFromLink(_)
extractNextPageFromLink(link) ==
    IF Len(link) = 0 THEN NULL
    ELSE IF Head(link).rel = "next" THEN Head(link).page
    ELSE extractNextPageFromLink(Tail(link))

\* ------------------------------------------- retrieveGitHubAppRepositories
Repository(lh) == [link_header |-> lh]

RECURSIVE SeqsUpTo(_, _)
SeqsUpTo(S, n) ==
    IF n = 0 THEN {<<>>}
    ELSE LET shorter == SeqsUpTo(S, n - 1)
         IN  shorter \cup {Append(s, x) : s \in {t \in shorter : Len(t) = n - 1}, x \in S}

\* the bodies /api/user/repositories can answer with (installation-scoped)
AppResponses == SeqsUpTo({Repository(lh) : lh \in OptionalLinks}, MaxRepos)

\* installation ids 10, 20, 30, ...; lists of length 1..MaxInstallations
InstallationLists ==
    {[i \in 1..n |-> 10 * i] : n \in 1..MaxInstallations}

\* github.ts 29-32
FirstLink(data) ==
    IF Len(data) > 0 /\ TruthyString(data[1].link_header)
    THEN data[1].link_header.value
    ELSE <<>>

\* mutant: the bounds test lets the index run one past the end
nextInstallationOffByOne(nextPage, installationIndex, installations) ==
    IF TruthyNumber(nextPage) THEN installationIndex
    ELSE IF installationIndex + 1 <= Len(installations) THEN installationIndex + 1
    ELSE NULL

\* mutant: the bounds test gives up one installation early
nextInstallationStopsEarly(nextPage, installationIndex, installations) ==
    IF TruthyNumber(nextPage) THEN installationIndex
    ELSE IF installationIndex + 1 < Len(installations) - 1 THEN installationIndex + 1
    ELSE NULL

\* github.ts 35-43
nextInstallation(nextPage, installationIndex, installations) ==
    IF TruthyNumber(nextPage) THEN installationIndex
    ELSE IF installationIndex + 1 < Len(installations) THEN installationIndex + 1
    ELSE NULL

\* github.ts 10-50, given the body `data` the remote call answered with
retrieveGitHubAppRepositories(installationIndex, installations, data) ==
    LET nextPage == extractNextPageFromLink(FirstLink(data))
    IN  [data |-> data,
         nextPage |-> nextPage,
         installationIndex |-> nextInstallation(nextPage, installationIndex, installations)]

VARIABLES
    installations,      \* the caller's list of installation ids
    installationIndex,  \* the index the call is made with
    page,               \* the page the call is made with
    response,           \* response.data of the remote call
    appResult,          \* what retrieveGitHubAppRepositories returned
    appPc,              \* "call" before the call, "returned" after, "done" at the end
    pagesOf,            \* traversal: the number of pages each installation has
    queried             \* traversal: the indices the calls were made with, in order

appVars == <<installations, installationIndex, page, response, appResult, appPc,
             pagesOf, queried>>

NoAppResult == [data |-> <<>>, nextPage |-> NULL, installationIndex |-> NULL]

VARIABLES
    userPage,           \* the page retrieveGitHubUserRepositories is called with
    userResponse,       \* response.data of its remote call
    userResult,         \* what it returned
    userPc              \* "call" before the call, "returned" after

userVars == <<userPage, userResponse, userResult, userPc>>

VARIABLES
    apiSettings,        \* the body OpenHands.getSettings() answered with
    mapped,             \* what getSettingsQueryFn returned for it
    mapPc               \* "call" before the call, "returned" after

mapVars == <<apiSettings, mapped, mapPc>>

VARIABLES
    providerTokensSet,  \* auth context: the provider-tokens-set map
    providersAreSet,    \* auth context: "at least one provider configured"
    query,              \* the settings query the hook observes
    observedKey,        \* the map in the query key of the last render
    visited,            \* the maps the query key has held
    lastDeps,           \* the effects' dependency values at the last render
    captures,           \* posthog.capture("user_activated") calls so far
    returned,           \* what useSettings returned at the last render
    dirty,              \* a render is scheduled (observer or context notified)
    fetchedKey          \* a fetch with a non-empty key settled since the last render

settingsVars == <<providerTokensSet, providersAreSet, query, observedKey, visited, lastDeps,
                  captures, returned, dirty, fetchedKey>>

vars == <<appVars, userVars, mapVars, settingsVars>>

\* the variables of a component that a specification does not exercise
IdleApp ==
    /\ installations = <<>> /\ installationIndex = NULL /\ page = 1
    /\ response = <<>> /\ appResult = NoAppResult /\ appPc = "idle"
    /\ pagesOf = <<>> /\ queried = <<>>

IdleUser ==
    /\ userPage = 1 /\ userResponse = <<>> /\ userResult = <<>> /\ userPc = "idle"

IdleMap ==
    /\ apiSettings = <<>> /\ mapped = <<>> /\ mapPc = "idle"

IdleSettings ==
    /\ providerTokensSet = <<>> /\ providersAreSet = FALSE /\ query = <<>>
    /\ observedKey = <<>> /\ visited = {} /\ lastDeps = <<>> /\ captures = 0
    /\ returned = <<>> /\ dirty = FALSE /\ fetchedKey = FALSE

\* one call with arbitrary in-bounds arguments and an arbitrary response
InitApp ==
    /\ installations \in InstallationLists
    /\ installationIndex \in 0..(Len(installations) - 1)
    /\ page \in {1, MaxPage}
    /\ response \in AppResponses
    /\ appResult = NoAppResult
    /\ appPc = "call"
    /\ pagesOf = <<>>
    /\ queried = <<>>
    /\ IdleUser /\ IdleMap /\ IdleSettings

AppCall ==
    /\ appPc = "call"
    /\ appResult' = retrieveGitHubAppRepositories(installationIndex, installations, response)
    /\ appPc' = "returned"
    /\ UNCHANGED <<installations, installationIndex, page, response, pagesOf, queried>>
    /\ UNCHANGED <<userVars, mapVars, settingsVars>>

NextApp == AppCall

SpecApp == InitApp /\ [][NextApp]_vars

Extracted == extractNextPageFromLink(FirstLink(response))

\* C1: whenever a next page number is extracted from the first repository's
\* link_header, the result reports that number as nextPage and the index the
\* call was made with as installationIndex.
C1_StaysOnInstallation ==
    (appPc = "returned" /\ Extracted # NULL)
        => /\ appResult.nextPage = Extracted
           /\ appResult.installationIndex = installationIndex

\* C2: when no next page is extracted and installationIndex + 1 is in bounds,
\* the result is nextPage = null and installationIndex + 1.
C2_AdvancesByOne ==
    (appPc = "returned" /\ Extracted = NULL /\ installationIndex + 1 < Len(installations))
        => /\ appResult.nextPage = NULL
           /\ appResult.installationIndex = installationIndex + 1

C2_Witness ==
    /\ appPc = "returned"
    /\ Len(response) > 0 /\ ~response[1].link_header.present
    /\ installations = <<10, 20>> /\ installationIndex = 0
    /\ appResult.nextPage = NULL /\ appResult.installationIndex = 1

\* C3: when no next page is extracted at the last index the result is
\* (null, null), and a null installationIndex is returned in no other case.
C3_NullOnlyAtEnd ==
    appPc = "returned" =>
        /\ (Extracted = NULL /\ installationIndex = Len(installations) - 1)
              => (appResult.nextPage = NULL /\ appResult.installationIndex = NULL)
        /\ appResult.installationIndex = NULL
              => (Extracted = NULL /\ installationIndex = Len(installations) - 1)

\* ------------------------------------------------------- the full traversal
\* The remote listing of a server on which installation i has pagesOf[i]
\* pages: a page before the last carries rel="next" for the following page
\* on its first repository; the last page carries no rel="next" (no header,
\* an empty header, a prev-only header, or no repositories at all).  A call
\* for an installation the server does not know lists nothing.
ServerResponses(index, p) ==
    LET known == index # NULL /\ index + 1 \in DOMAIN pagesOf
        more == known /\ p < pagesOf[index + 1]
        first == IF more
                 THEN {Str(<<LinkEntry("next", p + 1)>>),
                       Str(<<LinkEntry("prev", p - 1), LinkEntry("next", p + 1)>>)}
                 ELSE {Undefined, Str(<<>>), Str(<<LinkEntry("prev", p - 1)>>)}
        bodies == {<<Repository(lh)>> : lh \in first}
                  \cup {<<Repository(lh), Repository(Undefined)>> : lh \in first}
    IN  IF more THEN bodies ELSE bodies \cup {<<>>}

InitTraversal ==
    /\ installations \in InstallationLists
    /\ pagesOf \in [1..Len(installations) -> 1..MaxPage]
    /\ installationIndex = 0
    /\ page = 1
    /\ response = <<>>
    /\ appResult = NoAppResult
    /\ appPc = "call"
    /\ queried = <<>>
    /\ IdleUser /\ IdleMap /\ IdleSettings

\* one call of retrieveGitHubAppRepositories by the traversing caller
TraversalCall ==
    /\ appPc = "call"
    /\ \E data \in ServerResponses(installationIndex, page) :
          /\ response' = data
          /\ appResult' = retrieveGitHubAppRepositories(installationIndex, installations, data)
    /\ queried' = Append(queried, installationIndex)
    /\ appPc' = "returned"
    /\ UNCHANGED <<installations, installationIndex, page, pagesOf>>
    /\ UNCHANGED <<userVars, mapVars, settingsVars>>

\* the caller takes the returned cursor: the returned installationIndex, and
\* the returned nextPage, or page 1 when nextPage is null; null index: stop
TraversalAdvance ==
    /\ appPc = "returned"
    /\ installationIndex' = appResult.installationIndex
    /\ page' = IF appResult.nextPage = NULL THEN 1 ELSE appResult.nextPage
    /\ appPc' = IF appResult.installationIndex = NULL THEN "done" ELSE "call"
    /\ UNCHANGED <<installations, response, appResult, pagesOf, queried>>
    /\ UNCHANGED <<userVars, mapVars, settingsVars>>

NextTraversal == TraversalCall \/ TraversalAdvance

\* every call is awaited and answered, and the caller loops until the null marker
SpecTraversal == InitTraversal /\ [][NextTraversal]_vars /\ WF_vars(NextTraversal)

QueriedInOrder ==
    /\ Len(queried) > 0 => queried[1] = 0
    /\ \A k \in 1..(Len(queried) - 1) :
          queried[k + 1] = queried[k] \/ queried[k + 1] = queried[k] + 1

QueriedInBounds ==
    \A k \in 1..Len(queried) : queried[k] \in 0..(Len(installations) - 1)

QueriedAll ==
    {queried[k] : k \in 1..Len(queried)} = 0..(Len(installations) - 1)

\* C10: the traversal passes the installation indices in non-decreasing order,
\* skipping none and never out of bounds, and eventually reaches the null
\* marker having queried every installation.
C10_FullTraversal ==
    /\ [](QueriedInOrder /\ QueriedInBounds)
    /\ [](appPc = "done" => QueriedAll)
    /\ <>(appPc = "done")

C10_Witness ==
    /\ appPc = "done"
    /\ Len(installations) = 2
    /\ pagesOf = <<2, 1>>
    /\ queried = <<0, 0, 1>>

\* ------------------------------------------ retrieveGitHubUserRepositories
\* pagination.provider_cursors: undefined, or a map that may hold a cursor
\* string for "github" and one for "gitlab"
ProviderCursors ==
    {[present |-> FALSE, github |-> Undefined, gitlab |-> Undefined]}
    \cup [present : {TRUE},
          github : OptionalLinks,
          gitlab : {Undefined, Str(<<LinkEntry("next", 2)>>)}]

UserResponses ==
    [repositories : SeqsUpTo({Repository(Undefined)}, MaxRepos),
     pagination : [total_count : {0, 50},
                   has_more : BOOLEAN,
                   provider_cursors : ProviderCursors]]

\* provider_cursors?.github
githubCursorOf(provider_cursors) ==
    IF provider_cursors.present THEN provider_cursors.github ELSE Undefined

\* mutant: has_more is consulted before the github cursor
userNextPageHasMoreFirst(githubCursor, hasMore, p) ==
    IF hasMore THEN p + 1
    ELSE IF TruthyString(githubCursor) THEN extractNextPageFromLink(githubCursor.value)
    ELSE NULL

\* github.ts 83
userNextPage(githubCursor, hasMore, p) ==
    IF TruthyString(githubCursor) THEN extractNextPageFromLink(githubCursor.value)
    ELSE IF hasMore THEN p + 1
    ELSE NULL

\* github.ts 56-91, given the body `data` the remote call answered with
retrieveGitHubUserRepositories(p, data) ==
    LET hasMore == data.pagination.has_more
        githubCursor == githubCursorOf(data.pagination.provider_cursors)
    IN  [data |-> data.repositories,
         nextPage |-> userNextPage(githubCursor, hasMore, p),
         totalCount |-> data.pagination.total_count,
         providerCursors |-> data.pagination.provider_cursors]

InitUser ==
    /\ userPage \in 1..MaxPage
    /\ userResponse \in UserResponses
    /\ userResult = <<>>
    /\ userPc = "call"
    /\ IdleApp /\ IdleMap /\ IdleSettings

UserCall ==
    /\ userPc = "call"
    /\ userResult' = retrieveGitHubUserRepositories(userPage, userResponse)
    /\ userPc' = "returned"
    /\ UNCHANGED <<userPage, userResponse>>
    /\ UNCHANGED <<appVars, mapVars, settingsVars>>

NextUser == UserCall

SpecUser == InitUser /\ [][NextUser]_vars

GithubCursor == userResponse.pagination.provider_cursors.github

GithubCursorPresent ==
    userResponse.pagination.provider_cursors.present /\ GithubCursor.present

\* C4 as stated: a present github cursor decides nextPage through the link
\* extraction whatever has_more is; otherwise has_more gives page + 1;
\* otherwise null.
C4_PresentCursorDecides ==
    userPc = "returned" =>
        userResult.nextPage =
            IF GithubCursorPresent THEN extractNextPageFromLink(GithubCursor.value)
            ELSE IF userResponse.pagination.has_more THEN userPage + 1
            ELSE NULL

\* C4 amended: a present and non-empty github cursor decides nextPage through
\* the link extraction whatever has_more is; an absent or empty cursor leaves
\* it to has_more: page + 1 when true, null when false.
C4_NonEmptyCursorDecides ==
    userPc = "returned" =>
        userResult.nextPage =
            IF GithubCursorPresent /\ GithubCursor.value # <<>>
            THEN extractNextPageFromLink(GithubCursor.value)
            ELSE IF userResponse.pagination.has_more THEN userPage + 1
            ELSE NULL

C4_Witness ==
    /\ userPc = "returned"
    /\ GithubCursorPresent
    /\ GithubCursor.value = <<LinkEntry("prev", 1), LinkEntry("next", 3)>>
    /\ userResponse.pagination.has_more
    /\ userPage = 1
    /\ userResult.nextPage = 3

\* ------------------------------------------------------ getSettingsQueryFn
\* nullable values: null, or a value
Null == [null |-> TRUE]
Val(v) == [null |-> FALSE, value |-> v]

Providers == {"github", "gitlab"}

\* a provider_tokens_set map: provider name -> whether its token is stored
TokenSetMaps ==
    {<<>>, [p \in Providers |-> FALSE], [p \in Providers |-> p = "gitlab"]}

\* an optional map: undefined, or a map
NoMap == [present |-> FALSE, value |-> <<>>]
SomeMap(m) == [present |-> TRUE, value |-> m]

\* types/settings.ts 17-31
ApiSettingsFields ==
    {"llm_model", "llm_base_url", "agent", "language", "llm_api_key",
     "confirmation_mode", "security_analyzer", "remote_runtime_resource_factor",
     "github_token_is_set", "enable_default_condenser", "enable_sound_notifications",
     "user_consents_to_analytics", "provider_tokens"}

\* types/settings.ts 1-15
SettingsFields ==
    {"LLM_MODEL", "LLM_BASE_URL", "AGENT", "LANGUAGE", "LLM_API_KEY",
     "CONFIRMATION_MODE", "SECURITY_ANALYZER", "REMOTE_RUNTIME_RESOURCE_FACTOR",
     "GITHUB_TOKEN_IS_SET", "ENABLE_DEFAULT_CONDENSER", "ENABLE_SOUND_NOTIFICATIONS",
     "USER_CONSENTS_TO_ANALYTICS", "PROVIDER_TOKENS"}

\* the client name of a wire field: the same field of types/settings.ts,
\* upper-case (Settings line n + 16 is ApiSettings line n)
ClientName(w) ==
    CASE w = "llm_model" -> "LLM_MODEL"
      [] w = "llm_base_url" -> "LLM_BASE_URL"
      [] w = "agent" -> "AGENT"
      [] w = "language" -> "LANGUAGE"
      [] w = "llm_api_key" -> "LLM_API_KEY"
      [] w = "confirmation_mode" -> "CONFIRMATION_MODE"
      [] w = "security_analyzer" -> "SECURITY_ANALYZER"
      [] w = "remote_runtime_resource_factor" -> "REMOTE_RUNTIME_RESOURCE_FACTOR"
      [] w = "github_token_is_set" -> "GITHUB_TOKEN_IS_SET"
      [] w = "enable_default_condenser" -> "ENABLE_DEFAULT_CONDENSER"
      [] w = "enable_sound_notifications" -> "ENABLE_SOUND_NOTIFICATIONS"
      [] w = "user_consents_to_analytics" -> "USER_CONSENTS_TO_ANALYTICS"
      [] w = "provider_tokens" -> "PROVIDER_TOKENS"

\* the bodies the settings endpoint answers with: the ApiSettings fields plus
\* an optional provider_tokens_set map
ApiSettingsBodies(keys, tokenSets) ==
    [llm_model : {"gpt-4", "claude"},
     llm_base_url : {""},
     agent : {"CodeActAgent"},
     language : {"en"},
     llm_api_key : keys,
     confirmation_mode : BOOLEAN,
     security_analyzer : {""},
     remote_runtime_resource_factor : {NULL, 1, 2},
     github_token_is_set : BOOLEAN,
     enable_default_condenser : {TRUE},
     enable_sound_notifications : {FALSE},
     user_consents_to_analytics : {Null, Val(TRUE), Val(FALSE)},
     provider_tokens : {<<>>, [github |-> "ghp_1"]},
     provider_tokens_set : tokenSets]

\* use-settings.ts 8-25, given the body getSettings answered with
getSettingsQueryFn(api) ==
    [LLM_MODEL |-> api.llm_model,
     LLM_BASE_URL |-> api.llm_base_url,
     AGENT |-> api.agent,
     LANGUAGE |-> api.language,
     CONFIRMATION_MODE |-> api.confirmation_mode,
     SECURITY_ANALYZER |-> api.security_analyzer,
     LLM_API_KEY |-> api.llm_api_key,
     REMOTE_RUNTIME_RESOURCE_FACTOR |-> api.remote_runtime_resource_factor,
     PROVIDER_TOKENS_SET |-> api.provider_tokens_set,
     ENABLE_DEFAULT_CONDENSER |-> api.enable_default_condenser,
     ENABLE_SOUND_NOTIFICATIONS |-> api.enable_sound_notifications,
     USER_CONSENTS_TO_ANALYTICS |-> api.user_consents_to_analytics]

InitMap ==
    /\ apiSettings \in ApiSettingsBodies({Null, Val(""), Val("sk-1")},
                                         {NoMap, SomeMap([github |-> TRUE])})
    /\ mapped = <<>>
    /\ mapPc = "call"
    /\ IdleApp /\ IdleUser /\ IdleSettings

MapCall ==
    /\ mapPc = "call"
    /\ mapped' = getSettingsQueryFn(apiSettings)
    /\ mapPc' = "returned"
    /\ UNCHANGED apiSettings
    /\ UNCHANGED <<appVars, userVars, settingsVars>>

NextMap == MapCall

SpecMap == InitMap /\ [][NextMap]_vars

\* C7: the mapping is total and value-preserving: every wire field of
\* ApiSettings has its client counterpart in the output, every field of
\* Settings is produced, and each output field carries its wire field's value.
C7_TotalRename ==
    mapPc = "returned" =>
        /\ \A w \in ApiSettingsFields :
              /\ ClientName(w) \in DOMAIN mapped
              /\ mapped[ClientName(w)] = apiSettings[w]
        /\ \A f \in SettingsFields : f \in DOMAIN mapped

\* the part of C7 that the code keeps: the fields the adapter does produce
\* carry their wire values, and all of them but PROVIDER_TOKENS_SET are
\* Settings fields
C7_MappedFieldsPreserved ==
    mapPc = "returned" =>
        /\ \A w \in ApiSettingsFields :
              ClientName(w) \in DOMAIN mapped => mapped[ClientName(w)] = apiSettings[w]
        /\ DOMAIN mapped \ SettingsFields = {"PROVIDER_TOKENS_SET"}
        /\ SettingsFields \ DOMAIN mapped = {"GITHUB_TOKEN_IS_SET", "PROVIDER_TOKENS"}

\* -------------------------------------------------------------- useSettings
Undef == [undefined |-> TRUE]

\* truthiness of LLM_API_KEY: undefined, null and "" are falsy
TruthyKey(k) == "value" \in DOMAIN k /\ k.value # ""

ApiKeys == {Null, Val(""), Val("sk-1"), Val("sk-2")}

OptionalTokenSets == {NoMap} \cup {SomeMap(m) : m \in TokenSetMaps}

\* the settings bodies the endpoint answers with in the hook's runs
SettingsBodies ==
    ApiSettingsBodies(ApiKeys, OptionalTokenSets) \cap
    [llm_model : {"gpt-4"}, llm_base_url : {""}, agent : {"CodeActAgent"},
     language : {"en"}, llm_api_key : ApiKeys, confirmation_mode : {FALSE},
     security_analyzer : {""}, remote_runtime_resource_factor : {NULL},
     github_token_is_set : {FALSE}, enable_default_condenser : {TRUE},
     enable_sound_notifications : {FALSE}, user_consents_to_analytics : {Null},
     provider_tokens : {<<>>}, provider_tokens_set : OptionalTokenSets]

\* the statuses a failed settings read carries
FailureStatuses == {404, 500}

\* #/services/settings DEFAULT_SETTINGS: a fixed Settings value
DEFAULT_SETTINGS ==
    [LLM_MODEL |-> "default-model", LLM_BASE_URL |-> "", AGENT |-> "CodeActAgent",
     LANGUAGE |-> "en", LLM_API_KEY |-> Null, CONFIRMATION_MODE |-> FALSE,
     SECURITY_ANALYZER |-> "", REMOTE_RUNTIME_RESOURCE_FACTOR |-> 1,
     GITHUB_TOKEN_IS_SET |-> FALSE, ENABLE_DEFAULT_CONDENSER |-> TRUE,
     ENABLE_SOUND_NOTIFICATIONS |-> FALSE, USER_CONSENTS_TO_ANALYTICS |-> Null,
     PROVIDER_TOKENS |-> <<>>]

NoData == [present |-> FALSE, value |-> <<>>]
SomeData(d) == [present |-> TRUE, value |-> d]

\* a query of the cache before its first fetch
FreshQuery ==
    [data |-> NoData, error |-> NULL, isFetched |-> FALSE,
     fetchStatus |-> "idle", failureCount |-> 0, failureReason |-> NULL]

\* use-settings.ts 37: retry: (_, error) => error.status !== 404
retry(failureCount, error) == error # 404

\* the query layer starts a fetch: counters reset, and a query without data
\* goes back to pending with no error
StartFetch(q) ==
    [q EXCEPT !.fetchStatus = "fetching", !.failureCount = 0, !.failureReason = NULL,
              !.error = IF q.data.present THEN @ ELSE NULL]

\* what useQuery hands the hook for a query of the cache
QueryResult(q) ==
    [data |-> q.data,
     error |-> q.error,
     isError |-> q.error # NULL,
     status |-> IF q.error # NULL THEN "error"
                ELSE IF q.data.present THEN "success" ELSE "pending",
     isFetched |-> q.isFetched,
     isFetching |-> q.fetchStatus # "idle",
     failureCount |-> q.failureCount]

\* mutant: the spread comes last and overwrites the default data
useSettingsReturnSpreadLast(q) == q

\* use-settings.ts 63-70: { ...query, data: DEFAULT_SETTINGS } on a 404
useSettingsReturn(q) ==
    IF q.error = 404
    THEN [q EXCEPT !.data = SomeData(DEFAULT_SETTINGS)]
    ELSE q

\* mutant: the signal is sent on every run of the effect with a non-empty key,
\* the effect having no dependency list
userActivatedEveryRender(prevKey, key) ==
    IF TruthyKey(key) THEN 1 ELSE 0

\* use-settings.ts 43-47: the effect runs when query.data?.LLM_API_KEY
\* changed since the last render; the number of capture calls it makes
userActivated(prevKey, key) ==
    IF key # prevKey /\ TruthyKey(key) THEN 1 ELSE 0

\* mutant: every provider must be set
atLeastOneSetEvery(m) == \A p \in DOMAIN m : m[p]

\* use-settings.ts 52-54: Object.values(map).some((value) => value)
atLeastOneSet(m) == \E p \in DOMAIN m : m[p]

\* The query cache is modelled by the query the hook observes and the set of
\* keys it has observed: a key not yet observed has a fresh query; a key
\* observed before has whatever the reads made for it left in the cache.
CachedQueries ==
    {[FreshQuery EXCEPT !.data = d, !.error = e,
                        !.isFetched = (d.present \/ e # NULL)] :
        d \in {NoData} \cup {SomeData(getSettingsQueryFn(b)) : b \in SettingsBodies},
        e \in {NULL, 404}}

\* the auth context before any settings were read: no provider token known
InitialAuth ==
    /\ providerTokensSet = <<>>
    /\ providersAreSet = FALSE

\* the state after the hook's first render: the query of the initial key is
\* fetching, both effects have run on undefined data
InitSettings ==
    /\ InitialAuth
    /\ query = StartFetch(FreshQuery)
    /\ observedKey = <<>>
    /\ visited = {<<>>}
    /\ lastDeps = [key |-> Undef, map |-> NoMap, isFetched |-> FALSE]
    /\ captures = 0
    /\ returned = useSettingsReturn(QueryResult(StartFetch(FreshQuery)))
    /\ dirty = FALSE
    /\ fetchedKey = FALSE
    /\ IdleApp /\ IdleUser /\ IdleMap

\* the read of the observed query answers with a settings body
FetchSucceed ==
    /\ query.fetchStatus = "fetching"
    /\ \E body \in SettingsBodies :
          /\ query' = [data |-> SomeData(getSettingsQueryFn(body)), error |-> NULL,
                       isFetched |-> TRUE, fetchStatus |-> "idle",
                       failureCount |-> 0, failureReason |-> NULL]
          /\ fetchedKey' = (fetchedKey \/ TruthyKey(body.llm_api_key))
    /\ dirty' = TRUE
    /\ UNCHANGED <<providerTokensSet, providersAreSet, observedKey, visited, lastDeps,
                   captures, returned>>
    /\ UNCHANGED <<appVars, userVars, mapVars>>

\* the read of the observed query fails: the retry option decides between a
\* retry after the retry delay and the error state
FetchFail ==
    /\ query.fetchStatus = "fetching"
    /\ \E status \in FailureStatuses :
          query' =
              IF retry(query.failureCount, status)
              THEN [query EXCEPT !.fetchStatus = "retrying",
                                 !.failureCount = IF @ < MaxFailureCount THEN @ + 1 ELSE @,
                                 !.failureReason = status]
              ELSE [query EXCEPT !.fetchStatus = "idle", !.error = status,
                                 !.isFetched = TRUE,
                                 !.failureCount = IF @ < MaxFailureCount THEN @ + 1 ELSE @,
                                 !.failureReason = status]
    /\ dirty' = TRUE
    /\ UNCHANGED <<providerTokensSet, providersAreSet, observedKey, visited, lastDeps,
                   captures, returned, fetchedKey>>
    /\ UNCHANGED <<appVars, userVars, mapVars>>

\* the retry delay has passed: the read is attempted again
RetryFire ==
    /\ query.fetchStatus = "retrying"
    /\ query' = [query EXCEPT !.fetchStatus = "fetching"]
    /\ UNCHANGED <<providerTokensSet, providersAreSet, observedKey, visited, lastDeps,
                   captures, returned, dirty, fetchedKey>>
    /\ UNCHANGED <<appVars, userVars, mapVars>>

\* the observed query is fetched again (window focus, invalidation)
Refetch ==
    /\ ~dirty
    /\ query.fetchStatus = "idle"
    /\ query' = StartFetch(query)
    /\ dirty' = TRUE
    /\ UNCHANGED <<providerTokensSet, providersAreSet, observedKey, visited, lastDeps,
                   captures, returned, fetchedKey>>
    /\ UNCHANGED <<appVars, userVars, mapVars>>

\* use-settings.ts 31-41: useQuery with queryKey ["settings", providerTokensSet];
\* a changed key makes the hook observe the query of the new key, which is
\* fetched unless a read of it is under way
ObservedQueries ==
    IF providerTokensSet = observedKey THEN {query}
    ELSE {IF c.fetchStatus = "idle" THEN StartFetch(c) ELSE c :
             c \in IF providerTokensSet \in visited THEN CachedQueries ELSE {FreshQuery}}

\* use-settings.ts 27-71: one render of useSettings and the effects after it.
\* The second effect's dependency PROVIDER_TOKENS_SET is compared by value: a
\* map that differs only in identity is written again with the values the
\* session state already holds.
Render ==
    /\ dirty
    /\ \E q \in ObservedQueries :
        LET keyDep == IF q.data.present THEN q.data.value.LLM_API_KEY ELSE Undef
            mapDep == IF q.data.present THEN q.data.value.PROVIDER_TOKENS_SET ELSE NoMap
            calls == userActivated(lastDeps.key, keyDep)
            write == /\ mapDep # lastDeps.map \/ q.isFetched # lastDeps.isFetched
                     /\ mapDep.present
        IN  /\ captures + calls <= MaxCaptures
            /\ query' = q
            /\ observedKey' = providerTokensSet
            /\ visited' = visited \cup {providerTokensSet}
            /\ lastDeps' = [key |-> keyDep, map |-> mapDep, isFetched |-> q.isFetched]
            /\ captures' = captures + calls
            /\ providerTokensSet' = IF write THEN mapDep.value ELSE providerTokensSet
            /\ providersAreSet' = IF write THEN atLeastOneSet(mapDep.value) ELSE providersAreSet
            /\ returned' = useSettingsReturn(QueryResult(q))
            /\ dirty' = (providerTokensSet' # providerTokensSet
                            \/ providersAreSet' # providersAreSet)
            /\ fetchedKey' = FALSE
    /\ UNCHANGED <<appVars, userVars, mapVars>>

NextSettings == FetchSucceed \/ FetchFail \/ RetryFire \/ Refetch \/ Render

SpecSettings == InitSettings /\ [][NextSettings]_vars

\* the steps the runtime guarantees: a read under way settles, a scheduled
\* retry fires, a scheduled render runs.  Whether a read succeeds or fails,
\* and whether anything triggers a refetch, is up to the environment.
FetchSettles == FetchSucceed \/ FetchFail

FairSpecSettings ==
    /\ InitSettings /\ [][NextSettings]_vars
    /\ WF_vars(FetchSettles) /\ WF_vars(RetryFire) /\ WF_vars(Render)

\* the hook has rendered the latest state of the observed query
Rendered == ~dirty

NonNotFoundFailing == query.failureReason \notin {NULL, 404}

\* C6: after a failure other than 404 the query layer may retry, the adapter
\* surfaces an error state (unless a retry succeeds), and the caller never
\* holds the default Settings object in place of the error.
C6_NonNotFoundSurfaces ==
    /\ [](NonNotFoundFailing => ~(returned.data = SomeData(DEFAULT_SETTINGS)
                                   /\ returned.error # 404))
    /\ [](NonNotFoundFailing => retry(query.failureCount, query.failureReason))
    /\ (NonNotFoundFailing ~> (returned.isError \/ ~NonNotFoundFailing))

\* the part of C6 that the code keeps: the default Settings object is
\* returned only together with a 404, and a non-404 failure is always retried
C6_NoSilentDefault ==
    /\ returned.data = SomeData(DEFAULT_SETTINGS) => returned.error = 404
    /\ NonNotFoundFailing => query.fetchStatus # "idle"

\* C8 as stated: the signal is emitted exactly once per successful fetch
\* whose API key is non-empty, and for no other fetch.
C8_OncePerKeyedFetch ==
    [][/\ captures' # captures => (captures' = captures + 1 /\ fetchedKey)
       /\ (fetchedKey /\ ~fetchedKey') => captures' = captures + 1]_vars

\* C8 amended: the signal is emitted exactly once each time the API key the
\* hook observes (query.data?.LLM_API_KEY, compared between consecutive
\* renders) changes to a non-empty value, and at no other time: not for a
\* fetch that returns the key already observed, and not for a null, empty or
\* missing key.
C8_OncePerKeyChange ==
    [][captures' = captures +
          (IF lastDeps'.key # lastDeps.key
                /\ "value" \in DOMAIN lastDeps'.key /\ lastDeps'.key.value # ""
           THEN 1 ELSE 0)]_vars

C8_Witness ==
    /\ captures = 1
    /\ fetchedKey /\ dirty
    /\ query.data.present
    /\ query.data.value.LLM_API_KEY = Val("sk-1")
    /\ lastDeps.key = Val("sk-1")
    /\ providerTokensSet = observedKey

\* C9: a present provider-tokens-set map is written to the session state
\* with the flag set to the OR of its values (false for the empty map); the
\* session state changes in no other way; the flag always equals the OR over
\* the map held.
C9_SessionWrites ==
    /\ []((Rendered /\ query.data.present /\ query.data.value.PROVIDER_TOKENS_SET.present)
            => /\ providerTokensSet = query.data.value.PROVIDER_TOKENS_SET.value
               /\ providersAreSet = (TRUE \in {providerTokensSet[p] : p \in DOMAIN providerTokensSet}))
    /\ [](providersAreSet = (TRUE \in {providerTokensSet[p] : p \in DOMAIN providerTokensSet}))
    /\ [][(providerTokensSet' # providerTokensSet \/ providersAreSet' # providersAreSet)
            => /\ query'.data.present
               /\ query'.data.value.PROVIDER_TOKENS_SET = SomeMap(providerTokensSet')]_vars

C9_Witness ==
    /\ Rendered
    /\ query.data.present
    /\ query.data.value.PROVIDER_TOKENS_SET = SomeMap([p \in Providers |-> p = "gitlab"])
    /\ providerTokensSet = [p \in Providers |-> p = "gitlab"]
    /\ providersAreSet
    /\ visited = {<<>>, [p \in Providers |-> FALSE], [p \in Providers |-> p = "gitlab"]}
====
